---- MODULE Spec2Model ----
(***************************************************************************)
(* Extraction normalizer of the fund-report pipeline.                      *)
(*                                                                         *)
(* normalize_to_schema reduces the ordered span list of a LangExtract      *)
(* result to a document (fund, investments, fees, contacts, anchors).      *)
(* Two variants are modelled: the vision pipeline (backend/pipeline.py)    *)
(* and the Docling pipeline (backend/docs/docling_langextract/pipeline.py).*)
(*                                                                         *)
(* Texts are sequences of one-character strings, so that the regular       *)
(* expression clean-up, the float()/int() conversions and the f-string     *)
(* grouping key are computed character by character as the code does.      *)
(***************************************************************************)
EXTENDS Integers, Sequences, FiniteSets, TLC

VARIABLES
    variant,                  \* "vision" or "docling": which normalize_to_schema runs
    extractions,              \* result.extractions, the span list (a mutable Python list)
    pc,                       \* position inside normalize_to_schema
    idx,                      \* index of the next span of the for loop
    data,                     \* the local dict data: fund, fees, contacts, source_anchors
    investment_groups,        \* the local insertion-ordered dict unique_key -> record
    current_investment_name,  \* rolling state
    current_investment_type,  \* rolling state
    model,                    \* the FundDocExtraction returned (NoModel before the return)
    run,                      \* how many times normalize_to_schema was invoked on the result
    first_model,              \* the document returned by the first invocation
    result_is_none,           \* the caller passed None as the extraction result
    other,                    \* a second invocation of normalize_to_schema, with its own locals
    jobs,                     \* server.py: the jobs table, job id -> job entry
    results,                  \* server.py: the results table, file hash -> result entry
    task,                     \* the background task of each job: where process_document_async is
    clock,                    \* the wall clock of the server, in seconds
    response,                 \* the answer of the request handled in the last step
    issued                    \* the job ids clients got from upload_file

vars == <<variant, extractions, pc, idx, data, investment_groups,
          current_investment_name, current_investment_type, model, run, first_model,
          result_is_none,
          other,
          jobs, results, task, clock, response, issued>>

\* the tables of the server and its background tasks
serverVars == <<jobs, results, task, clock, response, issued>>

-----------------------------------------------------------------------------
(* Bounds of the model *)

MaxSpans == 4       \* longest span list of the general specifications
MaxTxtLen == 4      \* longest text of the numeric-parsing specification
MaxExtra == 1       \* non-investment spans interleaved in the single-row specification
MaxPrefix == 3      \* name/type spans before the field span of the field specification

-----------------------------------------------------------------------------
(* Python values: a missing dict key, None, a str, a float/int.  One record *)
(* shape for all of them; a number is num / 10^scale.                       *)

Absent == [k |-> "absent", t |-> <<>>, n |-> 0, s |-> 0]
None == [k |-> "none", t |-> <<>>, n |-> 0, s |-> 0]
Str(txt) == [k |-> "str", t |-> txt, n |-> 0, s |-> 0]
Num(n, s) == [k |-> "num", t |-> <<>>, n |-> n, s |-> s]
ValueError == [k |-> "ValueError", t |-> <<>>, n |-> 0, s |-> 0]

\* Python truthiness of an Optional[str]: None and "" are falsy
Truthy(v) == v.k = "str" /\ v.t # <<>>

\* dict.get(key): a missing key reads as None
Get(v) == IF v.k = "absent" THEN None ELSE v

-----------------------------------------------------------------------------
(* Regular-expression clean-up and number parsing *)

Digits == {"0", "1", "2", "3", "4", "5", "6", "7", "8", "9"}

DigitVal(c) ==
    CASE c = "0" -> 0 [] c = "1" -> 1 [] c = "2" -> 2 [] c = "3" -> 3
      [] c = "4" -> 4 [] c = "5" -> 5 [] c = "6" -> 6 [] c = "7" -> 7
      [] c = "8" -> 8 [] c = "9" -> 9

IsDigit(c) == c \in Digits
IsNumericChar(c) == c \in Digits \cup {".", "-"}

\* StripNonNumeric with the pattern [^0-9.]: the minus sign is stripped too
StripNonNumericNoMinus(txt) == SelectSeq(txt, LAMBDA c : c \in Digits \cup {"."})

\* re.sub(r"[^0-9.\-]", "", txt)
StripNonNumeric(txt) == SelectSeq(txt, IsNumericChar)

\* re.search(r"\d+", txt) in place of the substitution: the first run of
\* digits only
RECURSIVE FirstDigitRun(_)
FirstDigitRun(txt) ==
    IF txt = <<>> THEN <<>>
    ELSE IF IsDigit(Head(txt))
         THEN IF Len(txt) > 1 /\ IsDigit(txt[2])
              THEN <<Head(txt)>> \o FirstDigitRun(Tail(txt))
              ELSE <<Head(txt)>>
         ELSE FirstDigitRun(Tail(txt))

\* re.sub(r"\D", "", txt)
StripNonDigits(txt) == SelectSeq(txt, IsDigit)

RECURSIVE DigitsToInt(_)
DigitsToInt(ds) ==
    IF ds = <<>> THEN 0
    ELSE 10 * DigitsToInt(SubSeq(ds, 1, Len(ds) - 1)) + DigitVal(ds[Len(ds)])

RECURSIVE DropTrailingZeros(_)
DropTrailingZeros(ds) ==
    IF ds # <<>> /\ ds[Len(ds)] = "0"
    THEN DropTrailingZeros(SubSeq(ds, 1, Len(ds) - 1))
    ELSE ds

\* position of the first "." of s, Len(s)+1 when there is none
RECURSIVE DotPos(_, _)
DotPos(s, i) ==
    IF i > Len(s) THEN i
    ELSE IF s[i] = "." THEN i
    ELSE DotPos(s, i + 1)

\* float(s) for a string over digits, "." and "-": an optional leading sign,
\* then digits with at most one ".", at least one digit; else ValueError.
PyFloat(s) ==
    LET neg == s # <<>> /\ s[1] = "-"
        body == IF neg THEN Tail(s) ELSE s
        dot == DotPos(body, 1)
        ip == SubSeq(body, 1, dot - 1)
        fp == SubSeq(body, dot + 1, Len(body))
        ok == /\ \A i \in 1..Len(ip) : ip[i] \in Digits
              /\ \A i \in 1..Len(fp) : fp[i] \in Digits
              /\ Len(ip) + Len(fp) >= 1
        frac == DropTrailingZeros(fp)
        mag == DigitsToInt(ip \o frac)
    IN IF ok THEN Num(IF neg THEN 0 - mag ELSE mag, Len(frac)) ELSE ValueError

\* int(s) for a string of digits: ValueError on the empty string
PyInt(s) == IF s = <<>> THEN ValueError ELSE Num(DigitsToInt(s), 0)

\* ToFloatOrNone without the except clause: the ValueError escapes
ToFloatNoExcept(txt) ==
    LET r == PyFloat(StripNonNumeric(txt))
    IN [raised |-> r = ValueError, val |-> r]

\* try: float(re.sub(...)) except Exception: None   -- the value that is stored
ToFloatOrNone(txt) ==
    LET r == PyFloat(StripNonNumeric(txt))
    IN [raised |-> FALSE, val |-> IF r = ValueError THEN None ELSE r]

\* try: int(re.sub(r"\D", "", txt)) except Exception: None
ToIntOrNone(txt) ==
    LET r == PyInt(StripNonDigits(txt))
    IN [raised |-> FALSE, val |-> IF r = ValueError THEN None ELSE r]

-----------------------------------------------------------------------------
(* Texts used by the inputs *)

Underscore == <<"_">>

txt_A == <<"A">>
txt_B == <<"B">>
txt_C == <<"C">>
txt_A_B == <<"A", "_", "B">>
txt_B_C == <<"B", "_", "C">>
txt_Equity == <<"E", "q", "u", "i", "t", "y">>
txt_Debt == <<"D", "e", "b", "t">>
txt_Tech == <<"T", "e", "c", "h">>
txt_Fund == <<"F", "u", "n", "d">>
txt_p3 == <<"p", "3">>
txt_p4 == <<"p", "4">>
txt_NA == <<"N", "/", "A">>
txt_1 == <<"1">>
txt_2 == <<"2">>
txt_12_5pct == <<"1", "2", ".", "5", "%">>
txt_1000000 == <<"$", "1", ",", "0", "0", "0", ",", "0", "0", "0">>
txt_1200000 == <<"$", "1", ",", "2", "0", "0", ",", "0", "0", "0">>
txt_2019 == <<"2", "0", "1", "9">>
txt_USD == <<"U", "S", "D">>
txt_Inc == <<"I", "n", "c", ".">>

-----------------------------------------------------------------------------
(* Spans: langextract Extraction objects *)

\* attributes of a span: None, or a dict that may hold anchor/title/email/phone
AttrsNone == [isnone |-> TRUE, anchor |-> Absent, title |-> Absent,
              email |-> Absent, phone |-> Absent]
EmptyDict == [isnone |-> FALSE, anchor |-> Absent, title |-> Absent,
              email |-> Absent, phone |-> Absent]
Anchored(a) == [EmptyDict EXCEPT !.anchor = Str(a)]

Span(cls, txt, attrs) == [cls |-> cls, txt |-> txt, attrs |-> attrs]

\* attrs = getattr(ext, "attributes", {}) or {}
AttrsOf(ext) == IF ext.attrs.isnone THEN EmptyDict ELSE ext.attrs

-----------------------------------------------------------------------------
(* Class vocabulary of the dispatch chain *)

FundTextClasses(v) ==
    IF v = "vision"
    THEN {"fund_name", "fund_reporting_period", "domicile", "strategy", "gp_name"}
    ELSE {"fund_name", "domicile", "strategy", "gp_name"}

FeeClasses == {"management_fee", "carry", "hurdle_rate", "catch_up"}

TextFieldClasses(v) ==
    IF v = "vision"
    THEN {"industry", "country", "currency", "investment_date", "currency_exposure"}
    ELSE {"industry", "country", "currency", "investment_date"}

NumericFieldClasses(v) ==
    IF v = "vision"
    THEN {"investment_cost", "fair_value", "interest_fee_receivable", "total",
          "ownership", "number_of_shares", "moic"}
    ELSE {"investment_cost", "fair_value", "ownership", "number_of_shares", "moic"}

FieldClasses(v) == TextFieldClasses(v) \cup NumericFieldClasses(v)

FundFields == {"fund_name", "fund_reporting_period", "vintage_year",
               "domicile", "strategy", "gp_name"}

InvFields == {"investment_name", "investment_type"} \cup FieldClasses("vision")

-----------------------------------------------------------------------------
(* The insertion-ordered dict investment_groups: a sequence of key/record   *)
(* entries in first-insertion order.                                        *)

HasKey(groups, key) == \E i \in 1..Len(groups) : groups[i].key = key

GroupOf(groups, key) == (CHOOSE i \in 1..Len(groups) : groups[i].key = key)

\* {"investment_name": name}
NameOnlyRecord(name) ==
    [f \in InvFields |-> IF f = "investment_name" THEN Str(name) ELSE Absent]

\* {"investment_name": name, "investment_type": type}
NameTypeRecord(name, type) ==
    [f \in InvFields |-> IF f = "investment_name" THEN Str(name)
                         ELSE IF f = "investment_type" THEN Str(type)
                         ELSE Absent]

\* investment_groups[unique_key] = rec without the membership test: the record
\* of an existing key is replaced
EnsureGroupOverwrite(groups, key, rec) ==
    IF HasKey(groups, key)
    THEN [i \in 1..Len(groups) |->
             IF groups[i].key = key THEN [key |-> key, inv |-> rec] ELSE groups[i]]
    ELSE Append(groups, [key |-> key, inv |-> rec])

\* if unique_key not in investment_groups: investment_groups[unique_key] = rec
EnsureGroup(groups, key, rec) ==
    IF HasKey(groups, key) THEN groups
    ELSE Append(groups, [key |-> key, inv |-> rec])

\* investment_groups[unique_key][field] = val
SetField(groups, key, field, val) ==
    [i \in 1..Len(groups) |->
        IF groups[i].key = key
        THEN [groups[i] EXCEPT !.inv[field] = val]
        ELSE groups[i]]

\* f"{name}_{type}"
UniqueKey(name, type) == name \o Underscore \o type

\* HasIdentity testing the name alone
HasIdentityNameOnly(name, type) == Truthy(name)

\* HasIdentity with "or" for "and"
HasIdentityEither(name, type) == Truthy(name) \/ Truthy(type)

\* the guard of every field branch: current_investment_name and current_investment_type
HasIdentity(name, type) == Truthy(name) /\ Truthy(type)

-----------------------------------------------------------------------------
(* The body of the for loop of normalize_to_schema, branch by branch.  Each  *)
(* branch maps the locals (loc) to the locals after the span.               *)

\* data and the rolling state right after the function's prologue
FreshData ==
    [fund |-> [f \in FundFields |-> Absent],
     fees |-> [f \in FeeClasses |-> Absent],
     contacts |-> <<>>,
     source_anchors |-> <<>>]

\* elif cls == "investment_name"
OnInvestmentName(loc, txt) ==
    LET unique_key == IF Truthy(loc.ty)
                      THEN UniqueKey(txt, loc.ty.t)
                      ELSE txt
    IN [loc EXCEPT !.nm = Str(txt),
                   !.groups = EnsureGroup(loc.groups, unique_key, NameOnlyRecord(txt))]

\* elif cls == "investment_type"
OnInvestmentType(loc, txt) ==
    IF Truthy(loc.nm)
    THEN LET unique_key == UniqueKey(loc.nm.t, txt)
             ensured == EnsureGroup(loc.groups, unique_key, NameOnlyRecord(loc.nm.t))
         IN [loc EXCEPT !.ty = Str(txt),
                        !.groups = SetField(ensured, unique_key, "investment_type", Str(txt))]
    ELSE [loc EXCEPT !.ty = Str(txt)]

\* elif cls == <field>: the guarded store shared by every field branch; conv is
\* the converted value ([raised, val]); a conversion that raises leaves the
\* record created by the branch and escapes the function
OnField(loc, cls, conv) ==
    IF HasIdentity(loc.nm, loc.ty)
    THEN LET unique_key == UniqueKey(loc.nm.t, loc.ty.t)
             ensured == EnsureGroup(loc.groups, unique_key,
                                    NameTypeRecord(loc.nm.t, loc.ty.t))
         IN IF conv.raised
            THEN [loc EXCEPT !.groups = ensured, !.raised = TRUE]
            ELSE [loc EXCEPT !.groups = SetField(ensured, unique_key, cls, conv.val)]
    ELSE loc

\* elif cls == "contact"
OnContact(loc, txt, attrs) ==
    [loc EXCEPT !.data.contacts =
        Append(@, [name |-> Str(txt), title |-> Get(attrs.title),
                   email |-> Get(attrs.email), phone |-> Get(attrs.phone)])]

\* CollectAnchor indented into the contact branch: anchors of other classes
\* are not collected
CollectAnchorContactOnly(loc, cls, attrs) ==
    IF cls = "contact" /\ attrs.anchor # Absent
    THEN [loc EXCEPT !.data.source_anchors = Append(@, attrs.anchor)]
    ELSE loc

\* if "anchor" in attrs: data["source_anchors"].append(attrs["anchor"])
CollectAnchor(loc, cls, attrs) ==
    IF attrs.anchor # Absent
    THEN [loc EXCEPT !.data.source_anchors = Append(@, attrs.anchor)]
    ELSE loc

\* d.setdefault(cls, val) in place of the assignment: the first value stays
AssignFirstOnly(d, cls, val) == IF d[cls] = Absent THEN [d EXCEPT ![cls] = val] ELSE d

\* data["fund"][cls] = val, data["fees"][cls] = val: a plain assignment
Assign(d, cls, val) == [d EXCEPT ![cls] = val]

\* the if/elif chain
Dispatch(v, loc, cls, txt, attrs) ==
    IF cls \in FundTextClasses(v)
    THEN [loc EXCEPT !.data.fund = Assign(@, cls, Str(txt))]
    ELSE IF cls = "vintage_year"
         THEN LET conv == ToIntOrNone(txt)
              IN IF conv.raised THEN [loc EXCEPT !.raised = TRUE]
                 ELSE [loc EXCEPT !.data.fund = Assign(@, cls, conv.val)]
    ELSE IF cls \in FeeClasses
         THEN [loc EXCEPT !.data.fees = Assign(@, cls, Str(txt))]
    ELSE IF cls = "investment_name" THEN OnInvestmentName(loc, txt)
    ELSE IF cls = "investment_type" THEN OnInvestmentType(loc, txt)
    ELSE IF cls \in TextFieldClasses(v)
         THEN OnField(loc, cls, [raised |-> FALSE, val |-> Str(txt)])
    ELSE IF cls \in NumericFieldClasses(v) THEN OnField(loc, cls, ToFloatOrNone(txt))
    ELSE IF cls = "contact" THEN OnContact(loc, txt, attrs)
    ELSE loc

\* one iteration: the chain, then the anchor collection for every class
LoopBody(v, loc, ext) ==
    LET after == Dispatch(v, loc, ext.cls, ext.txt, AttrsOf(ext))
    IN IF after.raised THEN after
       ELSE CollectAnchor(after, ext.cls, AttrsOf(ext))

Locals == [data |-> data, groups |-> investment_groups,
           nm |-> current_investment_name, ty |-> current_investment_type,
           raised |-> FALSE]

-----------------------------------------------------------------------------
(* The end of normalize_to_schema *)

\* HasFinancialData reading inv[key] instead of inv.get(key): a key that was
\* never set counts as data
HasFinancialDataNoGet(inv) ==
    \/ inv["investment_cost"] # None
    \/ inv["fair_value"] # None
    \/ inv["ownership"] # None

\* the test of the clean-up loop: the record has financial data
HasFinancialData(inv) ==
    \/ Get(inv["investment_cost"]) # None
    \/ Get(inv["fair_value"]) # None
    \/ Get(inv["ownership"]) # None

\* CleanUp without the skip: every record of the dict is kept
CleanUpKeepAll(groups) ==
    [i \in 1..Len(groups) |-> [groups[i].inv EXCEPT !["currency"] = Str(txt_USD)]]

\* investments.insert(0, inv) in place of append: the kept records in reverse
RECURSIVE CleanUpPrepend(_)
CleanUpPrepend(groups) ==
    IF groups = <<>> THEN <<>>
    ELSE LET inv == Head(groups).inv
         IN IF HasFinancialData(inv)
            THEN CleanUpPrepend(Tail(groups))
                 \o <<[inv EXCEPT !["currency"] = Str(txt_USD)]>>
            ELSE CleanUpPrepend(Tail(groups))

\* the clean-up loop of the vision variant: keep the records with financial
\* data, in dict order, and set their currency to "USD"
RECURSIVE CleanUp(_)
CleanUp(groups) ==
    IF groups = <<>> THEN <<>>
    ELSE LET inv == Head(groups).inv
         IN IF HasFinancialData(inv)
            THEN <<[inv EXCEPT !["currency"] = Str(txt_USD)]>> \o CleanUp(Tail(groups))
            ELSE CleanUp(Tail(groups))

\* the records kept are the dict's own records: inv["currency"] = "USD" is
\* written into investment_groups as well
MarkCurrency(groups) ==
    [i \in 1..Len(groups) |->
        IF HasFinancialData(groups[i].inv)
        THEN [groups[i] EXCEPT !.inv["currency"] = Str(txt_USD)]
        ELSE groups[i]]

\* list(investment_groups.values()) of the Docling variant
Values(groups) == [i \in 1..Len(groups) |-> groups[i].inv]

\* a pydantic model built from a dict: every declared field, None when missing
Validated(fields, d) == [f \in fields |-> Get(d[f])]

ValidatedAll(fields, ds) == [i \in 1..Len(ds) |-> Validated(fields, ds[i])]

\* FundDocExtraction(**data) of the vision variant: the schema module of that
\* variant keeps the five keys of data
FundDocExtractionVision(d, investments) ==
    [fund |-> Validated(FundFields, d.fund),
     investments |-> ValidatedAll(InvFields, investments),
     fees |-> Validated(FeeClasses, d.fees),
     contacts |-> d.contacts,
     source_anchors |-> d.source_anchors]

\* fields of the Docling schema.py
DoclingFundFields == {"fund_name", "vintage_year", "gp_name", "domicile", "strategy"}
DoclingInvFields == {"investment_name", "investment_type"} \cup FieldClasses("docling")

\* FundDocExtraction(**data) of the Docling variant (schema.py): the model
\* declares investment, not investments; pydantic ignores the undeclared key
\* and fills investment with its default
FundDocExtractionDocling(d, investments) ==
    [fund |-> Validated(DoclingFundFields, d.fund),
     investment |-> [f \in DoclingInvFields |-> None],
     fees |-> Validated(FeeClasses, d.fees),
     contacts |-> d.contacts,
     source_anchors |-> d.source_anchors]

NoModel == [fund |-> None]

-----------------------------------------------------------------------------
(* fix_known_extraction_issues of the Docling variant *)

txt_Containers_Packaging ==
    <<"C", "o", "n", "t", "a", "i", "n", "e", "r", "s", " ", "&", " ", "P", "a", "c", "k", "a", "g", "i", "n", "g">>
txt_Health_Care ==
    <<"H", "e", "a", "l", "t", "h", " ", "C", "a", "r", "e", " ", "P", "r", "o", "v", "i", "d", "e", "r", "s", " ", "&", " ", "S", "e", "r", "v", "i", "c", "e", "s">>
txt_Global_Packaging_Solutions_Inc ==
    <<"G", "l", "o", "b", "a", "l", " ", "P", "a", "c", "k", "a", "g", "i", "n", "g", " ", "S", "o", "l", "u", "t", "i", "o", "n", "s", ",", " ", "I", "n", "c", ".">>
txt_Global_Packaging_Solutions ==
    <<"G", "l", "o", "b", "a", "l", " ", "P", "a", "c", "k", "a", "g", "i", "n", "g", " ", "S", "o", "l", "u", "t", "i", "o", "n", "s">>
txt_Global_Packaging ==
    <<"G", "l", "o", "b", "a", "l", " ", "P", "a", "c", "k", "a", "g", "i", "n", "g">>
txt_Solutions_Inc ==
    <<"S", "o", "l", "u", "t", "i", "o", "n", "s", ",", " ", "I", "n", "c", ".">>
txt_Innovate_Medical_Research_Center_LLC ==
    <<"I", "n", "n", "o", "v", "a", "t", "e", " ", "M", "e", "d", "i", "c", "a", "l", " ", "R", "e", "s", "e", "a", "r", "c", "h", " ", "C", "e", "n", "t", "e", "r", " ", "L", "L", "C">>
txt_Innovate_Medical_Research ==
    <<"I", "n", "n", "o", "v", "a", "t", "e", " ", "M", "e", "d", "i", "c", "a", "l", " ", "R", "e", "s", "e", "a", "r", "c", "h">>
txt_Medical_Research_Center_LLC ==
    <<"M", "e", "d", "i", "c", "a", "l", " ", "R", "e", "s", "e", "a", "r", "c", "h", " ", "C", "e", "n", "t", "e", "r", " ", "L", "L", "C">>

\* the dict company_industry_mapping, in insertion order
company_industry_mapping ==
    <<
      [company |-> txt_Global_Packaging_Solutions_Inc, industry |-> txt_Containers_Packaging],
      [company |-> txt_Global_Packaging_Solutions, industry |-> txt_Containers_Packaging],
      [company |-> txt_Global_Packaging, industry |-> txt_Containers_Packaging],
      [company |-> txt_Solutions_Inc, industry |-> txt_Containers_Packaging],
      [company |-> txt_Innovate_Medical_Research_Center_LLC, industry |-> txt_Health_Care],
      [company |-> txt_Innovate_Medical_Research, industry |-> txt_Health_Care],
      [company |-> txt_Medical_Research_Center_LLC, industry |-> txt_Health_Care]
    >>

\* a in b, for Python strings
IsSubstring(a, b) ==
    \E i \in 0..(Len(b) - Len(a)) : SubSeq(b, i + 1, i + Len(a)) = a

\* the industry looked up for an investment name: exact match first, else the
\* first pattern that contains the name or is contained in it, else None
IndustryFor(txt) ==
    LET m == company_industry_mapping
        exact == {i \in 1..Len(m) : m[i].company = txt}
        partial == {i \in 1..Len(m) :
                       IsSubstring(txt, m[i].company) \/ IsSubstring(m[i].company, txt)}
        First(S) == CHOOSE i \in S : \A j \in S : i <= j
    IN IF exact # {} THEN Str(m[First(exact)].industry)
       ELSE IF partial # {} THEN Str(m[First(partial)].industry)
       ELSE None

\* extractions.append(industry_ext) executed twice for a known company
FixedUpTwice(exts, ext) ==
    IF ext.cls = "investment_name" /\ ext.txt # <<>> /\ Truthy(IndustryFor(ext.txt))
    THEN exts \o << Span("industry", IndustryFor(ext.txt).t, EmptyDict),
                    Span("industry", IndustryFor(ext.txt).t, EmptyDict) >>
    ELSE exts

\* one iteration of the for loop of fix_known_extraction_issues: the list it
\* iterates over is the list it appends to
FixedUp(exts, ext) ==
    IF ext.cls = "investment_name" /\ ext.txt # <<>> /\ Truthy(IndustryFor(ext.txt))
    THEN Append(exts, Span("industry", IndustryFor(ext.txt).t, EmptyDict))
    ELSE exts

-----------------------------------------------------------------------------
(* Actions *)

\* result.extractions in place of getattr with a default: None has no such
\* attribute
GetExtractionsNoDefault(is_none, exts) ==
    IF is_none THEN [raised |-> TRUE, val |-> <<>>]
    ELSE [raised |-> FALSE, val |-> exts]

\* extractions = getattr(result, "extractions", []): the span list of the
\* result, a new empty list when the result is None
GetExtractions(is_none, exts) ==
    [raised |-> FALSE, val |-> IF is_none THEN <<>> ELSE exts]

\* Start with data kept from the previous call (a dict shared between calls)
StartKeepData ==
    /\ pc = "call"
    /\ variant = "vision"
    /\ run' = run + 1
    /\ investment_groups' = <<>>
    /\ current_investment_name' = None
    /\ current_investment_type' = None
    /\ idx' = 1
    /\ pc' = "loop"
    /\ UNCHANGED <<serverVars, variant, other, result_is_none, extractions, data, model, first_model>>

\* vision variant: the prologue of normalize_to_schema
Start ==
    /\ pc = "call"
    /\ variant = "vision"
    /\ run' = run + 1
    /\ LET got == GetExtractions(result_is_none, extractions)
       IN /\ extractions' = got.val
          /\ pc' = IF got.raised THEN "raised" ELSE "loop"
    /\ data' = FreshData
    /\ investment_groups' = <<>>
    /\ current_investment_name' = None
    /\ current_investment_type' = None
    /\ idx' = 1
    /\ UNCHANGED <<serverVars, variant, other, result_is_none, model, first_model>>

\* Docling variant: normalize_to_schema first calls fix_known_extraction_issues
StartDocling ==
    /\ pc = "call"
    /\ variant = "docling"
    /\ run' = run + 1
    /\ LET got == GetExtractions(result_is_none, extractions)
       IN /\ extractions' = got.val
          /\ pc' = IF got.raised THEN "raised" ELSE "fix"
    /\ idx' = 1
    /\ UNCHANGED <<serverVars, variant, other, result_is_none, data, investment_groups,
                   current_investment_name, current_investment_type, model, first_model>>

FixStep ==
    /\ pc = "fix"
    /\ idx <= Len(extractions)
    /\ extractions' = FixedUp(extractions, extractions[idx])
    /\ idx' = idx + 1
    /\ UNCHANGED <<serverVars, variant, other, result_is_none, pc, data, investment_groups, current_investment_name,
                   current_investment_type, model, run, first_model>>

\* fix_known_extraction_issues returns; the locals are initialised
FixReturn ==
    /\ pc = "fix"
    /\ idx > Len(extractions)
    /\ data' = FreshData
    /\ investment_groups' = <<>>
    /\ current_investment_name' = None
    /\ current_investment_type' = None
    /\ idx' = 1
    /\ pc' = "loop"
    /\ UNCHANGED <<serverVars, variant, other, result_is_none, extractions, model, run, first_model>>

\* one iteration of "for ext in extractions"
LoopStep ==
    /\ pc = "loop"
    /\ idx <= Len(extractions)
    /\ LET after == LoopBody(variant, Locals, extractions[idx])
       IN /\ data' = after.data
          /\ investment_groups' = after.groups
          /\ current_investment_name' = after.nm
          /\ current_investment_type' = after.ty
          /\ pc' = IF after.raised THEN "raised" ELSE "loop"
    /\ idx' = idx + 1
    /\ UNCHANGED <<serverVars, variant, other, result_is_none, extractions, model, run, first_model>>

\* vision variant: clean-up, schema object, return
Finish ==
    /\ pc = "loop"
    /\ variant = "vision"
    /\ idx > Len(extractions)
    /\ model' = FundDocExtractionVision(data, CleanUp(investment_groups))
    /\ first_model' = IF run = 1 THEN model' ELSE first_model
    /\ investment_groups' = MarkCurrency(investment_groups)
    /\ pc' = "done"
    /\ UNCHANGED <<serverVars, variant, other, result_is_none, extractions, idx, data,
                   current_investment_name, current_investment_type, run>>

\* Docling variant: list of all records, schema object, return
FinishDocling ==
    /\ pc = "loop"
    /\ variant = "docling"
    /\ idx > Len(extractions)
    /\ model' = FundDocExtractionDocling(data, Values(investment_groups))
    /\ first_model' = IF run = 1 THEN model' ELSE first_model
    /\ pc' = "done"
    /\ UNCHANGED <<serverVars, variant, other, result_is_none, extractions, idx, data, investment_groups,
                   current_investment_name, current_investment_type, run>>

\* the caller normalizes the same extraction result a second time
Reinvoke ==
    /\ pc = "done"
    /\ run = 1
    /\ pc' = "call"
    /\ UNCHANGED <<serverVars, variant, other, result_is_none, extractions, idx, data, investment_groups,
                   current_investment_name, current_investment_type, model,
                   run, first_model>>

-----------------------------------------------------------------------------
(* A second invocation, running at the same time *)

\* the variables of the first invocation
mainVars == <<variant, result_is_none, extractions, pc, idx, data, investment_groups,
              current_investment_name, current_investment_type, model, run,
              first_model>>

\* the frame of an invocation on exts that has not started
Invocation(exts, at) ==
    [extractions |-> exts, pc |-> at, idx |-> 1, data |-> FreshData,
     groups |-> <<>>, nm |-> None, ty |-> None, model |-> NoModel]

\* no second invocation
IdleInvocation == Invocation(<<>>, "idle")

\* current_investment_name, current_investment_type and investment_groups as
\* module-level names instead of locals: the second invocation reads those of
\* the first
OtherLocalsShared ==
    [data |-> other.data, groups |-> investment_groups,
     nm |-> current_investment_name, ty |-> current_investment_type,
     raised |-> FALSE]

\* the locals of the second invocation: its own data, investment_groups,
\* current_investment_name and current_investment_type
OtherLocals ==
    [data |-> other.data, groups |-> other.groups,
     nm |-> other.nm, ty |-> other.ty, raised |-> FALSE]

\* the prologue, in the second invocation
OtherStart ==
    /\ other.pc = "call"
    /\ other' = [other EXCEPT !.pc = "loop", !.idx = 1, !.data = FreshData,
                              !.groups = <<>>, !.nm = None, !.ty = None]
    /\ UNCHANGED <<serverVars, mainVars>>

\* one iteration of the for loop, in the second invocation
OtherLoopStep ==
    /\ other.pc = "loop"
    /\ other.idx <= Len(other.extractions)
    /\ LET after == LoopBody("vision", OtherLocals, other.extractions[other.idx])
       IN other' = [other EXCEPT !.data = after.data, !.groups = after.groups,
                                 !.nm = after.nm, !.ty = after.ty,
                                 !.idx = @ + 1,
                                 !.pc = IF after.raised THEN "raised" ELSE "loop"]
    /\ UNCHANGED <<serverVars, mainVars>>

\* clean-up, schema object, return, in the second invocation
OtherFinish ==
    /\ other.pc = "loop"
    /\ other.idx > Len(other.extractions)
    /\ other' = [other EXCEPT
                    !.model = FundDocExtractionVision(other.data, CleanUp(other.groups)),
                    !.groups = MarkCurrency(other.groups),
                    !.pc = "done"]
    /\ UNCHANGED <<serverVars, mainVars>>

-----------------------------------------------------------------------------
(* The server: jobs, results and the background task of a job *)

MaxJobs == 2
MaxClock == 2

\* job ids (uuid4 values, all different) and hashes of uploaded contents
JobIds == 1..MaxJobs
Hashes == {"h1", "h2"}

\* names of uploaded files
Filenames == { <<"S", "O", "I">>, <<"r", "e", "p", "o", "r", "t">>, <<"x">> }

\* str.lower() on the letters of the file names
Lower(name) ==
    [i \in 1..Len(name) |->
        IF name[i] = "S" THEN "s"
        ELSE IF name[i] = "O" THEN "o"
        ELSE IF name[i] = "I" THEN "i"
        ELSE name[i]]

\* infer_doc_type
InferDocType(filename) ==
    LET name == Lower(filename)
    IN IF \E keyword \in { <<"f", "u", "n", "d">>, <<"s", "o", "i">>,
                           <<"f", "i", "n", "a", "n", "c", "i", "a", "l">> } :
              IsSubstring(keyword, name)
       THEN "fund_financials"
       ELSE IF \E keyword \in { <<"i", "n", "v", "e", "s", "t", "o", "r">>,
                                <<"r", "e", "p", "o", "r", "t">> } :
                   IsSubstring(keyword, name)
       THEN "investor_report"
       ELSE "generic"

\* the ids upload_file returns: str(uuid.uuid4()) and f"cached-{file_hash}"
JobId(n) == [cached |-> FALSE, n |-> n, h |-> ""]
CachedId(h) == [cached |-> TRUE, n |-> 0, h |-> h]
NoId == [cached |-> FALSE, n |-> 0, h |-> ""]
AllIds == {JobId(n) : n \in JobIds} \cup {CachedId(h) : h \in Hashes}

\* an id without an entry in jobs, a hash without an entry in results
NoJob == [state |-> "absent", progress |-> 0, message |-> <<>>, hash |-> "",
          doc_type |-> "", run_dir |-> 0, entities |-> 0,
          downloads |-> FALSE, preview |-> FALSE]
NoResult == [hash |-> "", doc_type |-> "", entities |-> 0, run_dir |-> 0,
             completedAt |-> 0]

\* a task that was never added, and the positions of a task
NoTask == [pc |-> "none", step |-> 0, exc |-> ""]

\* no request was answered in the last step
NoResponse == [kind |-> "none", code |-> 0, job_id |-> NoId, doc_type |-> "",
               state |-> "", progress |-> 0, entities |-> 0,
               downloads |-> FALSE, preview |-> FALSE, hash |-> ""]

\* the tables of a server that has just started
NoServer ==
    /\ jobs = [j \in JobIds |-> NoJob]
    /\ results = [h \in Hashes |-> NoResult]
    /\ task = [j \in JobIds |-> NoTask]
    /\ clock = 1
    /\ response = NoResponse
    /\ issued = {}

\* the steps of process_document_async in order, and the progress written
\* when each has succeeded
StepNames == <<"begin", "ensure_run_dir", "vision_to_markdown", "load_prompt",
               "run_langextract", "save_outputs", "normalize_to_schema", "export">>
ProgressAfter == <<10, 20, 40, 60, 80, 90, 95, 100>>
MessageAfter ==
    << <<"Setting up processing pipeline...">>,
       <<"Converting PDF pages to markdown...">>,
       <<"Loading extraction prompts and examples...">>,
       <<"Running LangExtract on vision-generated markdown...">>,
       <<"Saving extraction artifacts...">>,
       <<"Normalizing to schema...">>,
       <<"Preparing exports...">>,
       <<"Processing completed successfully">> >>
LastStep == Len(StepNames)

\* the entities the run of job j extracts: an extraction run gives its own
\* result
EntitiesOf(j) == j

\* a second passes
Tick ==
    /\ clock < MaxClock
    /\ clock' = clock + 1
    /\ response' = NoResponse
    /\ UNCHANGED <<jobs, results, task, issued, mainVars, other>>

\* ensure_run_dir: the directory run_<stamp> of the current second,
\* created if it does not exist
EnsureRunDir(now) == now

\* a lookup that never finds the hash
NeverInResults(rs, h) == FALSE

\* file_hash in results
InResults(rs, h) == rs[h] # NoResult

\* upload_file for a content that has no result, up to the point where it
\* waits for the uploaded file to be written: the job entry is created under
\* a new id
UploadFile ==
    \E h \in Hashes, filename \in Filenames, id \in JobIds :
        /\ ~InResults(results, h)
        /\ jobs[id] = NoJob
        /\ \A k \in JobIds : k < id => jobs[k] # NoJob
        /\ jobs' = [jobs EXCEPT ![id] =
                       [state |-> "queued", progress |-> 0,
                        message |-> <<"Job created, starting processing...">>,
                        hash |-> h, doc_type |-> InferDocType(filename),
                        run_dir |-> 0, entities |-> 0,
                        downloads |-> FALSE, preview |-> FALSE]]
        /\ task' = [task EXCEPT ![id] = [pc |-> "saving", step |-> 0, exc |-> ""]]
        /\ response' = NoResponse
        /\ UNCHANGED <<results, clock, issued, mainVars, other>>

\* upload_file, the file is written: the background task is added and the
\* job id is returned
UploadSaved(id) ==
    /\ task[id].pc = "saving"
    /\ task' = [task EXCEPT ![id].pc = "running"]
    /\ response' = [NoResponse EXCEPT !.kind = "upload", !.code = 200,
                                      !.job_id = JobId(id),
                                      !.doc_type = jobs[id].doc_type]
    /\ issued' = issued \cup {JobId(id)}
    /\ UNCHANGED <<jobs, results, clock, mainVars, other>>

\* upload_file, writing the file raises: the except clause answers 500; no
\* task is added and the job entry stays
UploadFails(id) ==
    /\ task[id].pc = "saving"
    /\ task' = [task EXCEPT ![id].pc = "unsaved"]
    /\ response' = [NoResponse EXCEPT !.kind = "upload", !.code = 500]
    /\ UNCHANGED <<jobs, results, clock, issued, mainVars, other>>

\* upload_file for a content that has a result: the cached answer
UploadCached ==
    \E h \in Hashes, filename \in Filenames :
        /\ InResults(results, h)
        /\ response' = [NoResponse EXCEPT !.kind = "upload", !.code = 200,
                                          !.job_id = CachedId(h),
                                          !.doc_type = results[h].doc_type]
        /\ issued' = issued \cup {CachedId(h)}
        /\ UNCHANGED <<jobs, results, task, clock, mainVars, other>>

\* the next step of the task of job j succeeds; the first one marks the job
\* as processing, ensure_run_dir gives it its run directory
StepSucceeds(j) ==
    /\ task[j].pc = "running"
    /\ task[j].step + 1 < LastStep
    /\ LET n == task[j].step + 1
       IN /\ jobs' = [jobs EXCEPT
                         ![j].state = IF n = 1 THEN "processing" ELSE @,
                         ![j].run_dir = IF n = 2 THEN EnsureRunDir(clock) ELSE @,
                         ![j].progress = ProgressAfter[n],
                         ![j].message = MessageAfter[n]]
          /\ task' = [task EXCEPT ![j].step = n]
    /\ response' = NoResponse
    /\ UNCHANGED <<results, clock, issued, mainVars, other>>

\* the job is marked done before its entities, downloads and preview are
\* written
MarkDoneStateOnly(js, j) ==
    [js EXCEPT ![j].state = "done",
               ![j].progress = ProgressAfter[LastStep],
               ![j].message = MessageAfter[LastStep]]

\* jobs[job_id]: state "done", progress 100, message, entities, downloads,
\* preview, written without a suspension point in between
MarkDone(js, j) ==
    [js EXCEPT ![j].state = "done",
               ![j].progress = ProgressAfter[LastStep],
               ![j].message = MessageAfter[LastStep],
               ![j].entities = EntitiesOf(j),
               ![j].downloads = TRUE,
               ![j].preview = TRUE]

\* results.setdefault(file_hash, entry): an existing entry is kept
StoreResultOnce(rs, h, entry) ==
    IF rs[h] = NoResult THEN [rs EXCEPT ![h] = entry] ELSE rs

\* results[file_hash] = entry
StoreResult(rs, h, entry) == [rs EXCEPT ![h] = entry]

\* the export succeeds: the job is done and the result is stored under the
\* hash of its file
Completes(j) ==
    /\ task[j].pc = "running"
    /\ task[j].step + 1 = LastStep
    /\ jobs' = MarkDone(jobs, j)
    /\ results' = StoreResult(results, jobs[j].hash,
                              [hash |-> jobs[j].hash,
                               doc_type |-> jobs[j].doc_type,
                               entities |-> EntitiesOf(j),
                               run_dir |-> jobs[j].run_dir,
                               completedAt |-> clock])
    /\ task' = [task EXCEPT ![j].pc = "returned", ![j].step = LastStep]
    /\ response' = NoResponse
    /\ UNCHANGED <<clock, issued, mainVars, other>>

\* an except clause that marks every job of the table
MarkFailedEveryJob(js, j, e) ==
    [k \in JobIds |->
        IF js[k] = NoJob THEN js[k]
        ELSE [js[k] EXCEPT !.state = "error",
                           !.message = <<"Processing failed: ", e>>]]

\* an except clause that also resets the progress
MarkFailedResetProgress(js, j, e) ==
    [js EXCEPT ![j].state = "error",
               ![j].progress = 0,
               ![j].message = <<"Processing failed: ", e>>]

\* the except clause: jobs[job_id]["state"] = "error" and the message
MarkFailed(js, j, e) ==
    [js EXCEPT ![j].state = "error",
               ![j].message = <<"Processing failed: ", e>>]

\* a step after the first raises: the except clause of the task runs
StepFails(j) ==
    /\ task[j].pc = "running"
    /\ task[j].step >= 1
    /\ LET e == StepNames[task[j].step + 1]
       IN /\ jobs' = MarkFailed(jobs, j, e)
          /\ task' = [task EXCEPT ![j].pc = "failed", ![j].exc = e]
    /\ response' = NoResponse
    /\ UNCHANGED <<results, clock, issued, mainVars, other>>

\* job_id in jobs: the keys of jobs are uuid4 strings
InJobs(js, id) == ~id.cached /\ id.n \in JobIds /\ js[id.n] # NoJob

\* get_status: 404 when the id is not in jobs, else the JobStatus of the job
GetStatus ==
    \E id \in AllIds :
        /\ response' =
              IF ~InJobs(jobs, id)
              THEN [NoResponse EXCEPT !.kind = "status", !.code = 404, !.job_id = id]
              ELSE LET job == jobs[id.n]
                   IN [kind |-> "status", code |-> 200, job_id |-> id,
                       doc_type |-> job.doc_type, state |-> job.state,
                       progress |-> job.progress, entities |-> job.entities,
                       downloads |-> job.downloads, preview |-> job.preview,
                       hash |-> job.hash]
        /\ UNCHANGED <<jobs, results, task, clock, issued, mainVars, other>>

\* the normalizer variables while only the server is observed
NoCall ==
    /\ variant = "vision"
    /\ result_is_none = FALSE
    /\ extractions = <<>>
    /\ pc = "idle"
    /\ idx = 1
    /\ data = FreshData
    /\ investment_groups = <<>>
    /\ current_investment_name = None
    /\ current_investment_type = None
    /\ model = NoModel
    /\ run = 0
    /\ first_model = NoModel
    /\ other = IdleInvocation

InitServer == NoServer /\ NoCall

\* uploads and the background tasks
NextServer ==
    \/ UploadFile
    \/ \E j \in JobIds : UploadSaved(j)
    \/ \E j \in JobIds : UploadFails(j)
    \/ \E j \in JobIds : StepSucceeds(j)
    \/ \E j \in JobIds : Completes(j)
    \/ \E j \in JobIds : StepFails(j)

SpecServer == InitServer /\ [][NextServer]_vars

-----------------------------------------------------------------------------
(* Inputs and specifications *)

SeqsUpTo(S, n) == UNION {[1..k -> S] : k \in 0..n}

\* the state before normalize_to_schema is called on a result holding exts
InitWith(v, inputs) ==
    /\ variant = v
    /\ extractions \in inputs
    /\ pc = "call"
    /\ idx = 1
    /\ data = FreshData
    /\ investment_groups = <<>>
    /\ current_investment_name = None
    /\ current_investment_type = None
    /\ model = NoModel
    /\ run = 0
    /\ first_model = NoModel
    /\ result_is_none = FALSE
    /\ other = IdleInvocation
    /\ NoServer

\* spans of the general specification: two names, a type, an empty type,
\* parseable, unparseable and empty numeric texts, a text field, a fund field,
\* a contact, a label outside the vocabulary; some with an anchor
Vocab ==
    { Span("investment_name", txt_A, AttrsNone),
      Span("investment_name", txt_B, AttrsNone),
      Span("investment_type", txt_Equity, AttrsNone),
      Span("investment_type", <<>>, AttrsNone),
      Span("investment_cost", txt_1, Anchored(txt_p4)),
      Span("investment_cost", txt_NA, AttrsNone),
      Span("fair_value", <<>>, EmptyDict),
      Span("ownership", txt_12_5pct, AttrsNone),
      Span("industry", txt_Tech, AttrsNone),
      Span("fund_name", txt_Fund, AttrsNone),
      Span("contact", txt_C, [EmptyDict EXCEPT !.title = Str(txt_Tech)]),
      Span("footnote", txt_A, Anchored(txt_p3)) }

Init == InitWith("vision", SeqsUpTo(Vocab, MaxSpans))

Next == Start \/ LoopStep \/ Finish

Spec == Init /\ [][Next]_vars

\* ---- the same inputs, normalized twice by the caller
NextTwice == Next \/ Reinvoke

SpecTwice == Init /\ [][NextTwice]_vars

\* ---- one investment row: name, type, cost, fair value in that order, with
\* up to MaxExtra spans of other (non-investment) classes anywhere between
RowNames == {txt_A, txt_B, <<>>}
RowTypes == {txt_Equity, txt_Debt, <<>>}
RowAmounts == {txt_1000000, txt_1200000, txt_NA, <<>>}

ExtraSpans ==
    { Span("fund_name", txt_Fund, AttrsNone),
      Span("contact", txt_C, EmptyDict),
      Span("footnote", txt_1, Anchored(txt_p3)) }

InsertAt(s, p, x) == SubSeq(s, 1, p) \o <<x>> \o SubSeq(s, p + 1, Len(s))

RECURSIVE WithExtras(_, _)
WithExtras(S, k) ==
    IF k = 0 THEN S
    ELSE S \cup WithExtras({InsertAt(s, p, x) : s \in S, p \in 0..(4 + MaxExtra - k),
                                                  x \in ExtraSpans}, k - 1)

SingleRows ==
    { << Span("investment_name", n, AttrsNone), Span("investment_type", t, AttrsNone),
         Span("investment_cost", c, AttrsNone), Span("fair_value", f, AttrsNone) >> :
      n \in RowNames, t \in RowTypes, c \in RowAmounts, f \in RowAmounts }

InitSingle == InitWith("vision", WithExtras(SingleRows, MaxExtra))

SpecSingle == InitSingle /\ [][Next]_vars

\* ---- two rows with distinct (name, type) pairs, each row name, type, cost,
\* the first row's cost "1" and the second row's cost "2"
PairNames == {txt_A, txt_B, txt_A_B}
PairTypes == {txt_B, txt_C, txt_B_C, txt_Equity}

Row(n, t, c) ==
    << Span("investment_name", n, AttrsNone), Span("investment_type", t, AttrsNone),
       Span("investment_cost", c, AttrsNone) >>

TwoRows ==
    { Row(p[1], p[2], txt_1) \o Row(q[1], q[2], txt_2) :
      p \in PairNames \X PairTypes, q \in PairNames \X PairTypes } \
    { Row(p[1], p[2], txt_1) \o Row(p[1], p[2], txt_2) : p \in PairNames \X PairTypes }

InitRows == InitWith("vision", TwoRows)

SpecRows == InitRows /\ [][Next]_vars

\* ---- numeric parsing: a row A/Equity followed by one numeric span whose
\* text ranges over every text up to MaxTxtLen over NumChars, and the three
\* texts "12.5%", "$1,000,000", "N/A"
NumChars == {"0", "1", "5", ".", "-", "%"}

CommonNumericClasses ==
    {"investment_cost", "fair_value", "ownership", "number_of_shares", "moic"}

NumTexts == SeqsUpTo(NumChars, MaxTxtLen) \cup {txt_12_5pct, txt_1000000, txt_NA}

InitNumeric ==
    InitWith("vision",
             { << Span("investment_name", txt_A, AttrsNone),
                  Span("investment_type", txt_Equity, AttrsNone),
                  Span(c, t, AttrsNone) >> :
               c \in CommonNumericClasses, t \in NumTexts })

SpecNumeric == InitNumeric /\ [][Next]_vars

\* ---- one field span of every field class after up to MaxPrefix name and
\* type spans
IdentitySpans ==
    { Span("investment_name", txt_A, AttrsNone),
      Span("investment_name", txt_B, AttrsNone),
      Span("investment_name", <<>>, AttrsNone),
      Span("investment_type", txt_Equity, AttrsNone),
      Span("investment_type", txt_Debt, AttrsNone),
      Span("investment_type", <<>>, AttrsNone) }

InitFields ==
    InitWith("vision",
             { p \o <<Span(c, t, AttrsNone)>> :
               p \in SeqsUpTo(IdentitySpans, MaxPrefix),
               c \in FieldClasses("vision"), t \in {txt_1, txt_NA} })

SpecFields == InitFields /\ [][Next]_vars

\* ---- the Docling variant
DoclingVocab ==
    { Span("investment_name", txt_A, AttrsNone),
      Span("investment_name", txt_Inc, AttrsNone),
      Span("investment_name", txt_Global_Packaging, AttrsNone),
      Span("investment_type", txt_Equity, AttrsNone),
      Span("investment_cost", txt_1, AttrsNone),
      Span("industry", txt_Tech, AttrsNone),
      Span("footnote", txt_A, Anchored(txt_p3)) }

InitDocling == InitWith("docling", SeqsUpTo(DoclingVocab, MaxSpans))

NextDocling == StartDocling \/ FixStep \/ FixReturn \/ LoopStep \/ FinishDocling

SpecDocling == InitDocling /\ [][NextDocling]_vars

-----------------------------------------------------------------------------
(* Properties *)

Range(s) == {s[i] : i \in 1..Len(s)}

NonNull(v) == v.k \notin {"absent", "none"}

CountOf(s, C) == Cardinality({i \in 1..Len(s) : s[i] \in C})

\* the characters of txt that are digits, dots or minus signs, in order
RECURSIVE NumericPart(_)
NumericPart(txt) ==
    IF txt = <<>> THEN <<>>
    ELSE IF Head(txt) \in Digits \cup {".", "-"}
         THEN <<Head(txt)>> \o NumericPart(Tail(txt))
         ELSE NumericPart(Tail(txt))

\* s writes a number: at least one digit, at most one dot, a minus sign only
\* in front
NumberShaped(s) ==
    /\ CountOf(s, Digits) >= 1
    /\ CountOf(s, {"."}) <= 1
    /\ CountOf(s, {"-"}) <= 1
    /\ CountOf(s, {"-"}) = 1 => s[1] = "-"

\* the record the current (name, type) pair designates
CurrentRecord ==
    investment_groups[GroupOf(investment_groups,
        UniqueKey(current_investment_name.t, current_investment_type.t))].inv

\* C1: for every span sequence normalize_to_schema never raises, and a numeric
\* field whose text cannot be parsed is stored as null: right after such a
\* span is processed under a known (name, type) the field of the current
\* record is None, and every numeric field of the returned document is a
\* number or None.
C1_NeverRaisesNullOnFailure ==
    /\ pc # "raised"
    /\ (pc = "loop" /\ idx > 1) =>
          LET ext == extractions[idx - 1]
          IN (/\ ext.cls \in NumericFieldClasses(variant)
              /\ ~NumberShaped(NumericPart(ext.txt))
              /\ Truthy(current_investment_name)
              /\ Truthy(current_investment_type))
             => CurrentRecord[ext.cls] = None
    /\ pc = "done" =>
          \A j \in 1..Len(model.investments) :
             \A f \in NumericFieldClasses(variant) :
                model.investments[j][f].k \in {"none", "num"}

\* a run that returned although an unparseable numeric text was stored
C1_Witness ==
    /\ pc = "done"
    /\ \E i \in 1..Len(extractions) :
          /\ extractions[i].cls \in NumericFieldClasses(variant)
          /\ ~NumberShaped(NumericPart(extractions[i].txt))
          /\ \E g \in 1..Len(investment_groups) :
                investment_groups[g].inv[extractions[i].cls] = None

\* the span of class cls of a single-row input
TheSpan(cls) == extractions[CHOOSE i \in 1..Len(extractions) : extractions[i].cls = cls]

\* the values the amounts of the single-row inputs parse to
ParsedAmount(txt) ==
    CASE txt = txt_1000000 -> Num(1000000, 0)
      [] txt = txt_1200000 -> Num(1200000, 0)
      [] txt = txt_NA -> None
      [] txt = <<>> -> None

\* the output holds exactly one record: the row's name, type, cost, fair value
OneRecordOfTheRow ==
    /\ Len(model.investments) = 1
    /\ model.investments[1]["investment_name"] = Str(TheSpan("investment_name").txt)
    /\ model.investments[1]["investment_type"] = Str(TheSpan("investment_type").txt)
    /\ model.investments[1]["investment_cost"] = ParsedAmount(TheSpan("investment_cost").txt)
    /\ model.investments[1]["fair_value"] = ParsedAmount(TheSpan("fair_value").txt)

\* C2 as stated: given the spans investment_name, investment_type,
\* investment_cost, fair_value in that order for a single investment (and no
\* other investment spans), the output investments list contains exactly one
\* record, with that name, that type, the parsed cost and the parsed fair value
\* (read for an investment whose name and type texts are not empty).
C2_Original ==
    (/\ pc = "done"
     /\ TheSpan("investment_name").txt # <<>>
     /\ TheSpan("investment_type").txt # <<>>)
    => OneRecordOfTheRow

\* C2 amended: the same, provided at least one of cost and fair value parses
\* to a number (a row whose cost and fair value are both null has no financial
\* data and is filtered out of the list).
C2_OneRecordWhenFinancial ==
    (/\ pc = "done"
     /\ TheSpan("investment_name").txt # <<>>
     /\ TheSpan("investment_type").txt # <<>>
     /\ \/ ParsedAmount(TheSpan("investment_cost").txt) # None
        \/ ParsedAmount(TheSpan("fair_value").txt) # None)
    => OneRecordOfTheRow

\* the row of the specification: A, Equity, $1,000,000, $1,200,000
C2_Witness ==
    /\ pc = "done"
    /\ TheSpan("investment_name").txt = txt_A
    /\ TheSpan("investment_type").txt = txt_Equity
    /\ TheSpan("investment_cost").txt = txt_1000000
    /\ TheSpan("fair_value").txt = txt_1200000
    /\ Len(model.investments) = 1
    /\ model.investments[1]["investment_cost"] = Num(1000000, 0)
    /\ model.investments[1]["fair_value"] = Num(1200000, 0)

\* C3: every record of the final investments list has at least one of
\* investment_cost, fair_value, ownership non-null; a record with a name and a
\* type that received none of the three is not in the list (the list holds
\* exactly the grouped records that have one of the three, in order).
C3_OnlyFinancialRecords ==
    pc = "done" =>
       /\ \A j \in 1..Len(model.investments) :
             \/ NonNull(model.investments[j]["investment_cost"])
             \/ NonNull(model.investments[j]["fair_value"])
             \/ NonNull(model.investments[j]["ownership"])
       /\ Len(model.investments) =
             Cardinality({g \in 1..Len(investment_groups) :
                \/ NonNull(investment_groups[g].inv["investment_cost"])
                \/ NonNull(investment_groups[g].inv["fair_value"])
                \/ NonNull(investment_groups[g].inv["ownership"])})

\* a record with a name, a type and an industry but no financial value, left
\* out of the returned list
C3_Witness ==
    /\ pc = "done"
    /\ \E g \in 1..Len(investment_groups) :
          /\ NonNull(investment_groups[g].inv["investment_name"])
          /\ NonNull(investment_groups[g].inv["investment_type"])
          /\ NonNull(investment_groups[g].inv["industry"])
          /\ ~NonNull(investment_groups[g].inv["investment_cost"])
          /\ ~NonNull(investment_groups[g].inv["fair_value"])
          /\ ~NonNull(investment_groups[g].inv["ownership"])
          /\ \A j \in 1..Len(model.investments) :
                model.investments[j]["industry"] # investment_groups[g].inv["industry"]

\* the (name, type) pairs of the two rows of a two-row input
RowOne == [name |-> extractions[1].txt, type |-> extractions[2].txt, cost |-> Num(1, 0)]
RowTwo == [name |-> extractions[4].txt, type |-> extractions[5].txt, cost |-> Num(2, 0)]

IsRecordOf(rec, row) ==
    /\ rec["investment_name"] = Str(row.name)
    /\ rec["investment_type"] = Str(row.type)
    /\ rec["investment_cost"] = row.cost

\* C4: two rows with distinct (investment_name, investment_type) pairs, each
\* arriving as name, type, fields, are never merged: the output has two
\* different records, one per pair, and every record holds the name, the type
\* and the cost of one and the same row.
C4_RowsNeverMerged ==
    pc = "done" =>
       /\ Len(model.investments) = 2
       /\ \E j \in 1..Len(model.investments) : IsRecordOf(model.investments[j], RowOne)
       /\ \E j \in 1..Len(model.investments) : IsRecordOf(model.investments[j], RowTwo)
       /\ \A j \in 1..Len(model.investments) :
             \/ IsRecordOf(model.investments[j], RowOne)
             \/ IsRecordOf(model.investments[j], RowTwo)

\* the number the numeric part s writes, scaled by 10^(digits after the dot):
\* every digit weighted by the power of ten of its place
RECURSIVE Pow10(_)
Pow10(k) == IF k = 0 THEN 1 ELSE 10 * Pow10(k - 1)

DigitPlaces(s) == {i \in 1..Len(s) : s[i] \in Digits}

RECURSIVE WeightedSum(_, _)
WeightedSum(s, P) ==
    IF P = {} THEN 0
    ELSE LET i == CHOOSE x \in P : TRUE
         IN DigitVal(s[i]) * Pow10(Cardinality({j \in DigitPlaces(s) : j > i}))
            + WeightedSum(s, P \ {i})

DigitsAfterDot(s) ==
    Cardinality({i \in DigitPlaces(s) : \E d \in 1..(i - 1) : s[d] = "."})

\* the stored value v is the number written by s
WritesNumber(s, v) ==
    /\ v.k = "num"
    /\ v.s <= DigitsAfterDot(s)
    /\ v.n * Pow10(DigitsAfterDot(s) - v.s)
          = (IF s[1] = "-" THEN 0 - 1 ELSE 1) * WeightedSum(s, DigitPlaces(s))

\* the value stored for the numeric span of a numeric-parsing input
StoredNumeric == CurrentRecord[extractions[3].cls]

\* C5: the value stored for a numeric investment field is the number written
\* by the digits, dots and minus signs of the span text taken in order, and
\* null when they do not form a number; "12.5%" gives 12.5, "$1,000,000" gives
\* 1000000 and "N/A" gives null.
C5_NumericValue ==
    (pc \in {"loop", "done"} /\ idx = 4) =>
       LET txt == extractions[3].txt
           s == NumericPart(txt)
       IN /\ NumberShaped(s) => WritesNumber(s, StoredNumeric)
          /\ ~NumberShaped(s) => StoredNumeric = None
          /\ txt = txt_12_5pct => StoredNumeric = Num(125, 1)
          /\ txt = txt_1000000 => StoredNumeric = Num(1000000, 0)
          /\ txt = txt_NA => StoredNumeric = None

\* an ownership "12.5%" returned as 12.5
C5_Witness ==
    /\ pc = "done"
    /\ extractions[3].cls = "ownership"
    /\ extractions[3].txt = txt_12_5pct
    /\ Len(model.investments) = 1
    /\ model.investments[1]["ownership"] = Num(125, 1)

\* C6: for every span, whatever its class label (labels outside the
\* vocabulary and spans whose field is dropped included), an anchor in its
\* attributes is present in the output source_anchors.
C6_AnchorsCollected ==
    pc = "done" =>
       \A i \in 1..Len(extractions) :
          (~extractions[i].attrs.isnone /\ extractions[i].attrs.anchor # Absent)
          => extractions[i].attrs.anchor \in Range(model.source_anchors)

\* an anchored span of an unknown class and an anchored cost span that was
\* dropped, both anchors returned
C6_Witness ==
    /\ pc = "done"
    /\ investment_groups = <<>>
    /\ \E i \in 1..Len(extractions) :
          extractions[i].cls = "footnote" /\ extractions[i].attrs.anchor = Str(txt_p3)
    /\ \E i \in 1..Len(extractions) :
          extractions[i].cls = "investment_cost" /\ extractions[i].attrs.anchor = Str(txt_p4)
    /\ Str(txt_p3) \in Range(model.source_anchors)
    /\ Str(txt_p4) \in Range(model.source_anchors)

\* C7: running normalize_to_schema twice on the same extraction result yields
\* two identical documents.
C7_SameDocumentTwice == (pc = "done" /\ run = 2) => model = first_model

\* a second run that returned a document with an investment, a contact and an
\* anchor
C7_Witness ==
    /\ pc = "done"
    /\ run = 2
    /\ Len(model.investments) >= 1
    /\ Len(model.contacts) >= 1
    /\ Len(model.source_anchors) >= 1

\* C8: the document produced by normalize_to_schema of the Docling variant has
\* the top-level keys fund, investments, fees, contacts and source_anchors, and
\* investments is the array of every investment record kept by the pass.
C8_TopLevelKeys ==
    pc = "done" =>
       /\ DOMAIN model = {"fund", "investments", "fees", "contacts", "source_anchors"}
       /\ model.investments = ValidatedAll(DoclingInvFields, Values(investment_groups))

\* a field span of one of the classes of C9 is the next span of the loop
C9Classes ==
    {"industry", "country", "currency", "investment_date", "investment_cost",
     "fair_value", "ownership", "number_of_shares", "moic"}

FieldArrives(classes) ==
    /\ pc = "loop"
    /\ idx <= Len(extractions)
    /\ extractions[idx].cls \in classes

ClassesBefore(i, j) == {extractions[k].cls : k \in i..j}

\* the next span comes after a name span with no type span after it, and every
\* earlier type span followed the (non-empty) name of another investment
NameThenNoType ==
    \E j \in 1..(idx - 1) :
       /\ extractions[j].cls = "investment_name"
       /\ "investment_type" \notin ClassesBefore(j + 1, idx - 1)
       /\ \A k \in 1..(j - 1) :
             extractions[k].cls = "investment_type" =>
                /\ k > 1
                /\ \A i \in 1..(k - 1) :
                      /\ extractions[i].cls = "investment_name"
                      /\ extractions[i].txt # <<>>
                      /\ extractions[i].txt # extractions[j].txt

NameSetEarlier ==
    /\ current_investment_name # None
    /\ \E j \in 1..(idx - 1) :
          /\ extractions[j].cls = "investment_name"
          /\ Str(extractions[j].txt) = current_investment_name

TypeSetEarlier ==
    /\ current_investment_type # None
    /\ \E j \in 1..(idx - 1) :
          /\ extractions[j].cls = "investment_type"
          /\ Str(extractions[j].txt) = current_investment_type

\* C10: a field span (variant fields included) modifies the investment
\* records only when both current_investment_name and current_investment_type
\* have been set by earlier spans; otherwise the records are left unchanged.
C10_FieldNeedsNameAndType ==
    [][(FieldArrives(FieldClasses(variant)) /\ investment_groups' # investment_groups)
       => (NameSetEarlier /\ TypeSetEarlier)]_vars

\* a variant field stored in the record of the current pair
C10_Witness ==
    /\ pc = "loop"
    /\ idx = Len(extractions) + 1
    /\ idx > 1
    /\ extractions[idx - 1].cls = "interest_fee_receivable"
    /\ NameSetEarlier
    /\ TypeSetEarlier
    /\ Truthy(current_investment_name)
    /\ Truthy(current_investment_type)
    /\ CurrentRecord["interest_fee_receivable"] = Num(1, 0)
-----------------------------------------------------------------------------
(* Currency of the retained records *)

txt_EUR == <<"E", "U", "R">>
txt_GBP == <<"G", "B", "P">>

\* rows with currency spans: two names, a type, two currencies, a cost
CurrencyVocab ==
    { Span("investment_name", txt_A, AttrsNone),
      Span("investment_name", txt_B, AttrsNone),
      Span("investment_type", txt_Equity, AttrsNone),
      Span("currency", txt_EUR, AttrsNone),
      Span("currency", txt_GBP, AttrsNone),
      Span("investment_cost", txt_1, AttrsNone) }

InitCurrency == InitWith("vision", SeqsUpTo(CurrencyVocab, MaxSpans))

SpecCurrency == InitCurrency /\ [][Next]_vars

Max(S) == CHOOSE m \in S : \A n \in S : n <= m

\* the text of the last span of class cls before position i of the input,
\* None when there is none
LastBefore(cls, i) ==
    LET S == {k \in 1..(i - 1) : extractions[k].cls = cls}
    IN IF S = {} THEN None ELSE Str(extractions[Max(S)].txt)

\* positions of the currency spans that arrive while (name, type) is current
CurrencySpansOf(name, type) ==
    {i \in 1..Len(extractions) :
        /\ extractions[i].cls = "currency"
        /\ LastBefore("investment_name", i) = name
        /\ LastBefore("investment_type", i) = type}

\* C11: in the returned document every investment record that has a name and
\* a type carries as currency the text of the last currency span that arrived
\* under that (name, type), and no currency when no such span arrived
C11_CurrencyOfLastSpan ==
    pc = "done" =>
        \A j \in 1..Len(model.investments) :
            LET rec == model.investments[j]
                S == CurrencySpansOf(rec.investment_name, rec.investment_type)
            IN (Truthy(rec.investment_name) /\ Truthy(rec.investment_type)) =>
                   rec.currency = IF S = {} THEN None
                                  ELSE Str(extractions[Max(S)].txt)
-----------------------------------------------------------------------------
(* Fund-level and fee fields *)

MaxFund == 3

\* every fund-level and fee label with two texts, the vintage year with a
\* year and a text without digits
FundVocab ==
    { Span(c, t, AttrsNone) :
        c \in FundTextClasses("vision") \cup FeeClasses, t \in {txt_A, txt_B} }
    \cup { Span("vintage_year", t, AttrsNone) : t \in {txt_2019, txt_NA} }

InitFund == InitWith("vision", SeqsUpTo(FundVocab, MaxFund))

SpecFund == InitFund /\ [][Next]_vars

\* the value the last span of class cls of the input gives its field: the
\* text, for the vintage year the year or null; None when there is no span
LastValueOf(cls) ==
    LET last == LastBefore(cls, Len(extractions) + 1)
    IN IF cls = "vintage_year" /\ last = Str(txt_2019) THEN Num(2019, 0)
       ELSE IF cls = "vintage_year" THEN None
       ELSE last

\* C12: in the returned document every fund-level field (fund_name,
\* vintage_year, domicile, strategy, gp_name, fund_reporting_period) and every
\* fee field (management_fee, carry, hurdle_rate, catch_up) holds the value of
\* the last span of its class, and is unset when the input has no such span
C12_LastSpanWins ==
    pc = "done" =>
        /\ \A cls \in FundFields : model.fund[cls] = LastValueOf(cls)
        /\ \A cls \in FeeClasses : model.fees[cls] = LastValueOf(cls)

\* a fund field and a fee field each overwritten by a later span of their
\* class, and a field without any span
C12_Witness ==
    /\ pc = "done"
    /\ \E i, j \in 1..Len(extractions) :
          /\ i < j
          /\ extractions[i].cls = extractions[j].cls
          /\ extractions[i].txt # extractions[j].txt
          /\ extractions[i].cls \in FundFields
          /\ model.fund[extractions[j].cls] = LastValueOf(extractions[j].cls)
    /\ \E cls \in FeeClasses : NonNull(model.fees[cls])
    /\ \E cls \in FeeClasses : model.fees[cls] = None
-----------------------------------------------------------------------------
(* The vintage year *)

YearChars == {"0", "1", "9", "x", "-"}

YearTexts == SeqsUpTo(YearChars, MaxTxtLen)

\* one vintage_year span of any text, alone or followed by a second one
InitVintage ==
    InitWith("vision",
             { <<Span("vintage_year", t, AttrsNone)>> : t \in YearTexts }
             \cup { <<Span("vintage_year", t, AttrsNone),
                      Span("vintage_year", u, AttrsNone)>> :
                    t \in YearTexts, u \in {<<>>, txt_NA, txt_2019} })

SpecVintage == InitVintage /\ [][Next]_vars

\* the integer the digit characters of txt write, null without a digit
YearWritten(txt) ==
    IF DigitPlaces(txt) = {} THEN None
    ELSE Num(WeightedSum(txt, DigitPlaces(txt)), 0)

\* C13: a vintage_year span never makes normalize_to_schema raise; right after
\* it is processed the stored vintage year is the integer written by the digit
\* characters of its text, in order, and null when the text has no digit, also
\* when an earlier span had stored a year; the returned document holds the
\* value of the last span
C13_VintageYear ==
    /\ pc # "raised"
    /\ (pc = "loop" /\ idx > 1 /\ extractions[idx - 1].cls = "vintage_year") =>
           data.fund["vintage_year"] = YearWritten(extractions[idx - 1].txt)
    /\ (pc = "done" /\ extractions # <<>>
          /\ extractions[Len(extractions)].cls = "vintage_year") =>
           model.fund["vintage_year"] = YearWritten(extractions[Len(extractions)].txt)

\* a year written with other characters between its digits was stored, then a
\* span without digits arrived: the document has no vintage year
C13_Witness ==
    /\ pc = "done"
    /\ Len(extractions) = 2
    /\ Cardinality(DigitPlaces(extractions[1].txt)) >= 2
    /\ \E i \in 2..(Len(extractions[1].txt) - 1) : extractions[1].txt[i] \notin Digits
    /\ extractions[1].txt[1] \in Digits
    /\ DigitPlaces(extractions[2].txt) = {}
    /\ extractions[2].txt # <<>>
    /\ model.fund["vintage_year"] = None
-----------------------------------------------------------------------------
(* Investment name spans *)

\* the grouping key of a name span: the name joined with the current type when
\* one is known, the name alone otherwise
NameSpanKey(txt) ==
    IF Truthy(current_investment_type)
    THEN txt \o <<"_">> \o current_investment_type.t
    ELSE txt

\* C14: processing an investment_name span whose grouping key already has a
\* record leaves every record, and so every field of that record, unchanged;
\* when the key has no record, one record is added after the others, holding
\* the name and no other field
C14_NameSpanCreatesOrKeeps ==
    [][ (pc = "loop" /\ idx <= Len(extractions)
           /\ extractions[idx].cls = "investment_name") =>
        LET txt == extractions[idx].txt
            key == NameSpanKey(txt)
            n == Len(investment_groups)
        IN IF \E i \in 1..n : investment_groups[i].key = key
           THEN investment_groups' = investment_groups
           ELSE /\ Len(investment_groups') = n + 1
                /\ \A i \in 1..n : investment_groups'[i] = investment_groups[i]
                /\ investment_groups'[n + 1].key = key
                /\ \A f \in InvFields :
                      investment_groups'[n + 1].inv[f] =
                          IF f = "investment_name" THEN Str(txt) ELSE Absent
      ]_vars

\* a name span has just been processed whose key already had a record with a
\* cost
C14_Witness ==
    /\ pc = "loop"
    /\ idx > 1
    /\ extractions[idx - 1].cls = "investment_name"
    /\ \E i \in 1..Len(investment_groups) :
          /\ investment_groups[i].key = NameSpanKey(extractions[idx - 1].txt)
          /\ NonNull(investment_groups[i].inv["investment_cost"])
-----------------------------------------------------------------------------
(* Order of the investments list *)

MaxOrder == 7

\* two names under one type, with two costs: long enough for a record to be
\* updated after a second one was created
OrderVocab ==
    { Span("investment_name", txt_A, AttrsNone),
      Span("investment_name", txt_B, AttrsNone),
      Span("investment_type", txt_Equity, AttrsNone),
      Span("investment_cost", txt_1, AttrsNone),
      Span("investment_cost", txt_2, AttrsNone) }

InitOrder == InitWith("vision", SeqsUpTo(OrderVocab, MaxOrder))

SpecOrder == InitOrder /\ [][Next]_vars

KeysOf(groups) == [i \in 1..Len(groups) |-> groups[i].key]

IsPrefix(s, t) == Len(s) <= Len(t) /\ \A i \in 1..Len(s) : s[i] = t[i]

\* the records of investment_groups that have a cost, a fair value or an
\* ownership, in the order of investment_groups
RetainedInOrder ==
    SelectSeq(investment_groups,
              LAMBDA g : \E f \in {"investment_cost", "fair_value", "ownership"} :
                             NonNull(g.inv[f]))

\* C15: a grouping key keeps the position it got when its record was created:
\* processing a span never reorders the keys, a new key goes after all
\* others; and the investments list of the returned document holds the
\* retained records in that order
C15_FirstInsertionOrder ==
    /\ [][ (pc = "loop" /\ pc' = "loop") =>
               IsPrefix(KeysOf(investment_groups), KeysOf(investment_groups')) ]_vars
    /\ [](pc = "done" =>
            /\ Len(model.investments) = Len(RetainedInOrder)
            /\ \A j \in 1..Len(RetainedInOrder) :
                  \A f \in InvFields :
                      model.investments[j][f] = Get(RetainedInOrder[j].inv[f]))

\* two records are returned and the last span of the input changed the cost
\* of the first one, after the second one had got its cost
C15_Witness ==
    /\ pc = "done"
    /\ Len(model.investments) = 2
    /\ model.investments[1].investment_name # model.investments[2].investment_name
    /\ extractions[Len(extractions)].cls = "investment_cost"
    /\ current_investment_name = model.investments[1].investment_name
    /\ \E i \in 1..(Len(extractions) - 1) :
          /\ extractions[i].cls = "investment_cost"
          /\ extractions[i].txt # extractions[Len(extractions)].txt
          /\ LastBefore("investment_name", i) = model.investments[1].investment_name
          /\ \E k \in (i + 1)..(Len(extractions) - 1) :
                /\ extractions[k].cls = "investment_cost"
                /\ LastBefore("investment_name", k) = model.investments[2].investment_name
-----------------------------------------------------------------------------
(* The source anchors as a set *)

\* positions of the spans that carry an anchor
AnchoredPositions ==
    {i \in 1..Len(extractions) :
        ~extractions[i].attrs.isnone /\ extractions[i].attrs.anchor # Absent}

\* the position at which the anchor value a first occurs in the input
FirstOccurrence(a) ==
    CHOOSE i \in AnchoredPositions :
        /\ extractions[i].attrs.anchor = a
        /\ \A k \in AnchoredPositions : extractions[k].attrs.anchor = a => i <= k

\* C16: the source_anchors of the returned document hold no anchor value more
\* than once, also when several spans carry the same anchor, and hold the
\* values in the order of their first occurrence in the input
C16_AnchorsAreOrderedSet ==
    pc = "done" =>
        LET out == model.source_anchors
        IN /\ \A i, j \in 1..Len(out) : i # j => out[i] # out[j]
           /\ \A i, j \in 1..Len(out) :
                 i < j => FirstOccurrence(out[i]) <= FirstOccurrence(out[j])
-----------------------------------------------------------------------------
(* The extraction result is only read *)

\* C17: normalize_to_schema only reads the extraction result: no step of a
\* call adds, removes or changes a span, so that after the return the result
\* holds the span sequence it held before the call
C17_ResultNotMutated == [][extractions' = extractions]_vars
-----------------------------------------------------------------------------
(* No extraction result, no spans *)

MaxShort == 2

\* normalize_to_schema is called with None as the extraction result
InitNoResult ==
    /\ variant = "vision"
    /\ result_is_none = TRUE
    /\ extractions = <<>>
    /\ pc = "call"
    /\ idx = 1
    /\ data = FreshData
    /\ investment_groups = <<>>
    /\ current_investment_name = None
    /\ current_investment_type = None
    /\ model = NoModel
    /\ run = 0
    /\ first_model = NoModel
    /\ other = IdleInvocation
    /\ NoServer

\* no result, a result without spans, or a result with a few spans
InitResult == InitNoResult \/ InitWith("vision", SeqsUpTo(Vocab, MaxShort))

SpecResult == InitResult /\ [][Next]_vars

\* the call has neither a result nor a span to read
NothingExtracted == result_is_none \/ extractions = <<>>

-----------------------------------------------------------------------------
(* Two invocations at the same time *)

MaxPair == 3

\* the rows the first invocation is given, and those of the second
FirstVocab ==
    { Span("investment_name", txt_A, AttrsNone),
      Span("investment_type", txt_Equity, AttrsNone),
      Span("investment_cost", txt_1, Anchored(txt_p3)) }

SecondVocab ==
    { Span("investment_name", txt_B, AttrsNone),
      Span("investment_type", txt_Debt, AttrsNone),
      Span("investment_cost", txt_2, Anchored(txt_p4)) }

\* two calls on two extraction results, neither started
InitPair ==
    /\ variant = "vision"
    /\ result_is_none = FALSE
    /\ extractions \in SeqsUpTo(FirstVocab, MaxPair)
    /\ pc = "call"
    /\ idx = 1
    /\ data = FreshData
    /\ investment_groups = <<>>
    /\ current_investment_name = None
    /\ current_investment_type = None
    /\ model = NoModel
    /\ run = 0
    /\ first_model = NoModel
    /\ other \in {Invocation(exts, "call") : exts \in SeqsUpTo(SecondVocab, MaxPair)}
    /\ NoServer

\* the steps of the two invocations interleave in any order
NextPair == Start \/ LoopStep \/ Finish \/ OtherStart \/ OtherLoopStep \/ OtherFinish

SpecPair == InitPair /\ [][NextPair]_vars

\* the loop of normalize_to_schema run from start to end over exts
RECURSIVE RunLoop(_, _)
RunLoop(loc, exts) ==
    IF exts = <<>> \/ loc.raised THEN loc
    ELSE RunLoop(LoopBody("vision", loc, Head(exts)), Tail(exts))

\* the document normalize_to_schema returns for exts when it runs alone
Alone(exts) ==
    LET end == RunLoop([data |-> FreshData, groups |-> <<>>, nm |-> None,
                        ty |-> None, raised |-> FALSE], exts)
    IN FundDocExtractionVision(end.data, CleanUp(end.groups))

RollingState == <<data, investment_groups, current_investment_name,
                  current_investment_type>>

\* C19: of two invocations of normalize_to_schema on different extraction
\* results whose steps interleave in any order, each returns the document it
\* returns when run alone, and a step of one invocation leaves the rolling
\* state (current name, current type, record map) of the other as it was
C19_Independent ==
    /\ [](pc = "done" => model = Alone(extractions))
    /\ [](other.pc = "done" => other.model = Alone(other.extractions))
    /\ [][ /\ RollingState' # RollingState => other' = other
           /\ other' # other => RollingState' = RollingState ]_vars

\* both invocations are inside their loops at the same time, each holding its
\* own current name and type and the record of its own investment
C19_Witness ==
    /\ pc = "loop" /\ other.pc = "loop"
    /\ idx > 2 /\ other.idx > 2
    /\ current_investment_name = Str(txt_A) /\ other.nm = Str(txt_B)
    /\ current_investment_type = Str(txt_Equity) /\ other.ty = Str(txt_Debt)
    /\ KeysOf(investment_groups) = <<UniqueKey(txt_A, txt_Equity)>>
    /\ KeysOf(other.groups) = <<UniqueKey(txt_B, txt_Debt)>>
-----------------------------------------------------------------------------
(* A failing job *)

\* C20: when a step of the pipeline of a job fails, the state of that job
\* becomes "error" and its message records the error, while the state and the
\* progress of every other job and every entry of the results table stay as
\* they were
C20_FailureIsLocal ==
    [][ \A j \in JobIds :
          (task[j].pc = "running" /\ task'[j].pc = "failed") =>
              /\ jobs'[j].state = "error"
              /\ jobs'[j].message = <<"Processing failed: ", task'[j].exc>>
              /\ task'[j].exc = StepNames[task[j].step + 1]
              /\ \A k \in JobIds \ {j} :
                    /\ jobs'[k].state = jobs[k].state
                    /\ jobs'[k].progress = jobs[k].progress
              /\ results' = results
      ]_vars

\* a job has failed in run_langextract, after ensure_run_dir gave it a run
\* directory; the other job is done and its result is stored
C20_Witness ==
    \E j, k \in JobIds :
        /\ j # k
        /\ task[j].pc = "failed"
        /\ task[j].exc = "run_langextract"
        /\ jobs[j].state = "error"
        /\ jobs[j].progress = 60
        /\ jobs[j].run_dir # 0
        /\ jobs[k].state = "done"
        /\ jobs[k].progress = 100
        /\ results[jobs[k].hash] # NoResult
-----------------------------------------------------------------------------
(* The industry of a known company, Docling variant *)

\* the records of groups whose investment_name is name
RecordsNamed(groups, name) ==
    {i \in 1..Len(groups) : groups[i].inv["investment_name"] = Str(name)}

\* C24: in the Docling variant, when the span list holds an investment_name
\* that matches a known company, exactly or as a partial name, the record of
\* that company has, when normalize_to_schema returns, the industry mapped to
\* the company
C24_KnownCompanyIndustry ==
    (variant = "docling" /\ pc = "done") =>
        \A i \in 1..Len(extractions) :
            (extractions[i].cls = "investment_name"
               /\ Truthy(IndustryFor(extractions[i].txt))) =>
                \A r \in RecordsNamed(investment_groups, extractions[i].txt) :
                    investment_groups[r].inv["industry"] = IndustryFor(extractions[i].txt)

\* the industry added for a known company ended up on the record of another
\* investment, named after it in the list
C24_Misattached ==
    /\ variant = "docling" /\ pc = "done"
    /\ \E r \in RecordsNamed(investment_groups, txt_A) :
          investment_groups[r].inv["industry"] = Str(txt_Containers_Packaging)
    /\ \E r \in RecordsNamed(investment_groups, txt_Global_Packaging) :
          /\ NonNull(investment_groups[r].inv["investment_type"])
          /\ investment_groups[r].inv["industry"] = Absent
-----------------------------------------------------------------------------
(* Name and type of a record that received a field *)

\* positions of the field spans that arrive while a name and a type are known
AttachedFieldSpans ==
    {i \in 1..Len(extractions) :
        /\ extractions[i].cls \in FieldClasses(variant)
        /\ Truthy(LastBefore("investment_name", i))
        /\ Truthy(LastBefore("investment_type", i))}

\* C25: when normalize_to_schema returns, every record that received a field
\* value while the current pair was (name, type) has investment_name equal to
\* name and investment_type equal to type, in whatever order the name span and
\* the type span arrived
C25_RecordCarriesItsPair ==
    pc = "done" =>
        \A i \in AttachedFieldSpans :
            LET name == LastBefore("investment_name", i)
                type == LastBefore("investment_type", i)
            IN \A r \in 1..Len(investment_groups) :
                   investment_groups[r].key = UniqueKey(name.t, type.t) =>
                       /\ investment_groups[r].inv["investment_name"] = name
                       /\ investment_groups[r].inv["investment_type"] = type
-----------------------------------------------------------------------------
(* fix_known_extraction_issues ends *)

\* the Docling call keeps running: a started function executes its next
\* statement
SpecDoclingFair == SpecDocling /\ WF_vars(NextDocling)

\* the industries of company_industry_mapping
MappedIndustries ==
    {company_industry_mapping[i].industry : i \in 1..Len(company_industry_mapping)}

\* positions of the spans fix_known_extraction_issues has appended: industry
\* spans of a mapped industry with an empty attribute dict
AppendedPositions ==
    {i \in 1..Len(extractions) :
        /\ extractions[i].cls = "industry"
        /\ extractions[i].txt \in MappedIndustries
        /\ extractions[i].attrs = EmptyDict}

NamePositions ==
    {i \in 1..Len(extractions) : extractions[i].cls = "investment_name"}

\* C30: fix_known_extraction_issues returns on every finite span list,
\* although its loop appends to the list it iterates over; an iteration
\* appends at most one span, and only when it visits an investment_name span,
\* so that the appended industry spans are never more than the
\* investment_name spans of the list
C30_FixTerminates ==
    /\ (pc = "fix") ~> (pc = "loop")
    /\ [][ (pc = "fix" /\ extractions' # extractions) =>
               /\ Len(extractions') = Len(extractions) + 1
               /\ SubSeq(extractions', 1, Len(extractions)) = extractions
               /\ extractions[idx].cls = "investment_name"
               /\ idx' = idx + 1 ]_vars
    /\ [](Cardinality(AppendedPositions) <= Cardinality(NamePositions))

\* fix_known_extraction_issues has returned after appending an industry span
\* for each of two known names and none for an unknown one
C30_Witness ==
    /\ variant = "docling"
    /\ pc = "loop" /\ idx = 1
    /\ Cardinality(NamePositions) = 3
    /\ Cardinality(AppendedPositions) = 2
-----------------------------------------------------------------------------
(* The results table *)

\* the run of job j completes in this step
CompletesNow(j) == task[j].pc = "running" /\ task'[j].pc = "returned"

\* C21: the results table holds one entry per content hash, filed under its
\* own hash; an entry changes only when an extraction run for that file
\* completes, and it then becomes the result of that run, whether or not an
\* earlier run had written an entry: the entry of a hash is always the result
\* of the last run completed for the file
C21_LastRunReplaces ==
    /\ [](\A h \in Hashes : results[h] # NoResult => results[h].hash = h)
    /\ [][ \A h \in Hashes :
             results'[h] # results[h] =>
                 \E j \in JobIds : CompletesNow(j) /\ jobs[j].hash = h ]_vars
    /\ [][ \A j \in JobIds :
             CompletesNow(j) =>
                 /\ results'[jobs[j].hash].entities = EntitiesOf(j)
                 /\ results'[jobs[j].hash].entities = jobs'[j].entities
                 /\ results'[jobs[j].hash].run_dir = jobs[j].run_dir ]_vars

\* two runs for the same file have completed, the run of the job created
\* first after the other one: the entry is the result of that run
C21_Witness ==
    /\ jobs[1].state = "done" /\ jobs[2].state = "done"
    /\ jobs[1].hash = jobs[2].hash
    /\ results[jobs[1].hash].entities = EntitiesOf(1)
    /\ results[jobs[1].hash].entities # jobs[2].entities
-----------------------------------------------------------------------------
(* Run directories *)

\* the server while time passes
NextClock == NextServer \/ Tick

SpecClock == InitServer /\ [][NextClock]_vars

\* C22: no two runs get the same run directory from ensure_run_dir: the run
\* directories, and so the fund ids, of any two jobs differ, also when the
\* two jobs start at the same time
C22_RunDirsDiffer ==
    \A j, k \in JobIds :
        (j # k /\ jobs[j].run_dir # 0 /\ jobs[k].run_dir # 0) =>
            jobs[j].run_dir # jobs[k].run_dir
-----------------------------------------------------------------------------
(* Uploads of processed files and status polls *)

\* the server with repeated uploads and status polls
NextPoll == NextServer \/ UploadCached \/ GetStatus

SpecPoll == InitServer /\ [][NextPoll]_vars

\* the request answered in this step was an upload that got a cached id
CachedAnswer == response'.kind = "upload" /\ response'.job_id.cached

\* C23: an upload whose content hash has an entry in the results table
\* creates no job entry, adds no background task and leaves the jobs and
\* results tables as they were, and its answer carries the doc_type of the
\* cached result; no job is ever created for a hash that has an entry
C23_CachedUploadChangesNothing ==
    /\ [][ CachedAnswer =>
             /\ results[response'.job_id.h] # NoResult
             /\ jobs' = jobs
             /\ results' = results
             /\ task' = task
             /\ response'.code = 200
             /\ response'.doc_type = results[response'.job_id.h].doc_type ]_vars
    /\ [][ \A j \in JobIds :
             (jobs[j] = NoJob /\ jobs'[j] # NoJob) =>
                 results[jobs'[j].hash] = NoResult ]_vars

\* a file was processed under a name that makes it a fund document; a second
\* upload of its content was answered from the results table and no second
\* job exists
C23_Witness ==
    /\ response.kind = "upload"
    /\ response.job_id.cached
    /\ response.doc_type = "fund_financials"
    /\ jobs[1].state = "done"
    /\ jobs[1].hash = response.job_id.h
    /\ jobs[2] = NoJob
    /\ task[2] = NoTask
-----------------------------------------------------------------------------
(* The life of a job *)

\* the moves of the state of a job
StateMoves ==
    { <<"absent", "queued">>, <<"queued", "processing">>,
      <<"processing", "done">>, <<"processing", "error">> }

\* C26: the state of a job only moves from queued to processing and from
\* processing to done or to error, so that done and error are final; the
\* progress of a job never decreases; a job that is done has progress 100
C26_JobStateMachine ==
    /\ [][ \A j \in JobIds :
             /\ jobs'[j].state # jobs[j].state =>
                    <<jobs[j].state, jobs'[j].state>> \in StateMoves
             /\ jobs'[j].progress >= jobs[j].progress ]_vars
    /\ [](\A j \in JobIds : jobs[j].state = "done" => jobs[j].progress = 100)

\* one job is done, the other has failed while saving its outputs and keeps
\* the progress it had reached
C26_Witness ==
    \E j, k \in JobIds :
        /\ jobs[j].state = "done" /\ jobs[j].progress = 100
        /\ jobs[k].state = "error" /\ jobs[k].progress = 80
        /\ task[k].exc = "save_outputs"
-----------------------------------------------------------------------------
(* What a status poll sees *)

\* the last step answered a status poll and found the job done
SeenDone == response.kind = "status" /\ response.code = 200 /\ response.state = "done"

\* C27: a status poll that finds a job in state done finds its entities, its
\* downloads and its preview, and at that moment the results table has an
\* entry for the content hash of the job
C27_DoneIsComplete ==
    SeenDone =>
        /\ response.entities # 0
        /\ response.downloads
        /\ response.preview
        /\ response.progress = 100
        /\ results[response.hash] # NoResult

\* a poll has found a job done while the other job is still being processed
C27_Witness ==
    /\ SeenDone
    /\ response.entities = EntitiesOf(response.job_id.n)
    /\ \E k \in JobIds : jobs[k].state = "processing" /\ jobs[k].progress = 90
-----------------------------------------------------------------------------
(* Polling the ids upload_file returns *)

\* C28: a status poll for a job id that a successful upload has returned,
\* the id returned for an already processed file included, finds a job and is
\* not answered 404
C28_IssuedIdsCanBePolled ==
    (response.kind = "status" /\ response.job_id \in issued) =>
        response.code = 200

\* a poll for the id of a created job is answered with the job
C28_CreatedIdPolled ==
    /\ response.kind = "status"
    /\ response.job_id \in issued
    /\ ~response.job_id.cached
    /\ response.code = 200
-----------------------------------------------------------------------------
(* Progress of the jobs: the event loop runs every background task that was
   added, every awaited external call returns or raises, and a request
   handler that has started runs to its answer *)

SpecServerFair ==
    /\ SpecServer
    /\ \A j \in JobIds :
        /\ WF_vars(UploadSaved(j) \/ UploadFails(j))
        /\ WF_vars(StepSucceeds(j) \/ Completes(j) \/ StepFails(j))

\* C29: every job created by an upload eventually reaches state done or
\* state error; no job stays in queued or processing forever
C29_EveryJobFinishes ==
    \A j \in JobIds :
        (jobs[j].state \in {"queued", "processing"})
            ~> (jobs[j].state \in {"done", "error"})

\* a job whose background task was added does reach done or error
C29_StartedJobsFinish ==
    \A j \in JobIds :
        (task[j].pc = "running") ~> (jobs[j].state \in {"done", "error"})

====
